---------------------------- MODULE Spec2Model ----------------------------
(***************************************************************************)
(* Verification model of revelation-user: permissions, roles and claims    *)
(* (src/permissions.rs, src/role.rs, src/entity/claims.rs), the public     *)
(* projection of a user (src/projections/public.rs) and the request        *)
(* extractors (src/extract/axum_extract.rs, src/extract/actix_extract.rs). *)
(*                                                                         *)
(* Representation.  A machine integer is the set of its 1-bit positions    *)
(* (bit 0 is the least significant): a u32 is a subset of 0..31.  Bitwise  *)
(* OR / AND are union / intersection, so every width and every unknown bit *)
(* of the source is kept.  An Option<T> is a set with at most one element. *)
(* usize is taken to be 64 bits wide (no truncation of the clock's u64).   *)
(***************************************************************************)
EXTENDS Integers, FiniteSets, Sequences, TLC

VARIABLES claims, clock, ret, user

vars == <<claims, clock, ret, user>>

----------------------------------------------------------------------------
(* Bounds of the model                                                     *)

\* expiry / issued-at timestamps are drawn from 0..MaxTime
MaxTime == 2
\* input permission sets and raw integers carry at most MaxPick arbitrary bits
MaxPick == 1

\* the longest list of tokens a parsed string is made of
MaxTokens == 2

----------------------------------------------------------------------------
(* Option<T>                                                               *)

None == {}

Some(v) == {v}

is_some(o) == o # {}

unwrap(o) == CHOOSE v \in o : TRUE

----------------------------------------------------------------------------
(* Machine integers as bit sets                                            *)

U32Bits == 0..31

\* the bit set of a non-negative literal below 2^31
U32(n) == {i \in 0..30 : (n \div (2^i)) % 2 = 1}

\* 0xFFFF_FFFF
U32_MAX == U32Bits

----------------------------------------------------------------------------
(* bitflags! Permissions: u32                                              *)

READ == U32(1)

WRITE == U32(2)

DELETE == U32(4)

ADMIN == U32(8)

MANAGE_USERS == U32(16)

MANAGE_ROLES == U32(32)

BILLING == U32(64)

AUDIT == U32(128)

EXPORT == U32(256)

IMPORT == U32(512)

API_ACCESS == U32(1024)

PREMIUM == U32(2048)

VIEWER == READ

EDITOR == READ \cup WRITE

MANAGER == READ \cup WRITE \cup DELETE \cup MANAGE_USERS

\* the named single-bit flags, in declaration order
Flags == <<READ, WRITE, DELETE, ADMIN, MANAGE_USERS, MANAGE_ROLES, BILLING,
           AUDIT, EXPORT, IMPORT, API_ACCESS, PREMIUM>>

\* Permissions::empty()
empty == {}

\* Permissions::all(): the union of every declared flag
all == UNION {Flags[i] : i \in 1..Len(Flags)}

\* Permissions::bits()
bits(p) == p

\* variant: any shared flag is enough
contains_any(a, b) == (a \cap b) # {}

\* a.contains(b): (a & b) == b
contains(a, b) == (a \cap b) = b

\* a.intersects(b): (a & b) != 0
intersects(a, b) == (a \cap b) # {}

\* Permissions::from_bits_truncate(bits): bits & all().bits()
from_bits_truncate(x) == x \cap bits(all)

\* Permissions::from_bits(bits): Some iff truncation changes nothing
from_bits(x) == IF from_bits_truncate(x) = x THEN Some(x) ELSE None

\* variant: unknown bits are dropped instead of rejected
from_bits_checked_lenient(x) == Some(from_bits_truncate(x))

\* Permissions::from_bits_checked
from_bits_checked(x) == from_bits(x)

\* variant: the raw bits are kept as they are (from_bits_retain)
from_bits_truncating_keep(x) == x

\* Permissions::from_bits_truncating
from_bits_truncating(x) == from_bits_truncate(x)

\* Permissions::as_u32
as_u32(p) == bits(p)


\* impl Default for Permissions
Permissions_default == READ

----------------------------------------------------------------------------
(* enum RUserRole and trait Role                                           *)

RUserRole == {"User", "Premium", "Admin"}

\* inherent RUserRole::is_admin: matches!(self, Self::Admin)
RUserRole_is_admin(r) == r = "Admin"

\* variant: matches!(self, Self::Premium)
RUserRole_is_premium_only(r) == r = "Premium"

\* inherent RUserRole::is_premium: matches!(self, Self::Premium | Self::Admin)
RUserRole_is_premium(r) == r \in {"Premium", "Admin"}

\* variant: User is also given DELETE
RUserRole_permissions_user_delete(r) ==
    CASE r = "User"    -> READ \cup API_ACCESS \cup DELETE
      [] r = "Premium" -> READ \cup WRITE \cup API_ACCESS \cup PREMIUM \cup EXPORT
      [] r = "Admin"   -> all

\* variant: Premium lacks EXPORT
RUserRole_permissions_no_export(r) ==
    CASE r = "User"    -> READ \cup API_ACCESS
      [] r = "Premium" -> READ \cup WRITE \cup API_ACCESS \cup PREMIUM
      [] r = "Admin"   -> all

\* impl Role for RUserRole: permissions()
RUserRole_permissions(r) ==
    CASE r = "User"    -> READ \cup API_ACCESS
      [] r = "Premium" -> READ \cup WRITE \cup API_ACCESS \cup PREMIUM \cup EXPORT
      [] r = "Admin"   -> all

\* A receiver of the trait Role: the built-in enum, or another implementor
\* whose required method permissions() returns the set it was built with.
StdRole(r) == [impl |-> "RUserRole", variant |-> r, table |-> empty]

OtherRole(p) == [impl |-> "other", variant |-> "other", table |-> p]

\* Role::permissions (required method, dispatched on the implementor)
Role_permissions(x) ==
    IF x.impl = "RUserRole" THEN RUserRole_permissions(x.variant) ELSE x.table

\* Role::can (provided method)
Role_can(x, p) == contains(Role_permissions(x), p)

\* Role::can_all (provided method)
Role_can_all(x, p) == contains(Role_permissions(x), p)

\* Role::can_any (provided method)
Role_can_any(x, p) == intersects(Role_permissions(x), p)

\* Role::is_admin (provided method)
Role_is_admin(x) == Role_can(x, ADMIN)

\* Role::is_premium (provided method)
Role_is_premium(x) == Role_can(x, PREMIUM)

----------------------------------------------------------------------------
(* struct Claims                                                           *)

\* Claims::new
Claims_new(sub, role, exp) ==
    [sub |-> sub, role |-> role, exp |-> exp, iat |-> None, permissions |-> None]

\* Claims::with_iat
Claims_with_iat(sub, role, exp, iat) ==
    [sub |-> sub, role |-> role, exp |-> exp, iat |-> Some(iat),
     permissions |-> None]

\* Claims::with_permissions
Claims_with_permissions(sub, role, exp, permissions) ==
    [sub |-> sub, role |-> role, exp |-> exp, iat |-> None,
     permissions |-> Some(permissions)]

\* variant: before the epoch the distance to the epoch is taken as now
now_secs_abs(t) == IF t < 0 THEN -t ELSE t

\* SystemTime::now().duration_since(UNIX_EPOCH).map(as_secs).unwrap_or(0):
\* t is the system clock in whole seconds relative to the epoch; a clock
\* before the epoch makes duration_since fail and the fallback 0 is used.
now_secs(t) == IF t < 0 THEN 0 ELSE t

\* variant: one second of leeway after the expiry
is_expired_leeway(c, t) == c.exp + 1 < now_secs(t)

\* variant: expired from the very second of the expiry (exp <= now)
is_expired_inclusive(c, t) == c.exp <= now_secs(t)

\* variant: expired only in the second that follows the expiry
is_expired_once(c, t) == c.exp + 1 = now_secs(t)

\* Claims::is_expired, reading the system clock t
is_expired(c, t) == c.exp < now_secs(t)

\* variant: an override decides whether the value is an administrator
Claims_is_admin_by_override(c) ==
    IF is_some(c.permissions) THEN contains(unwrap(c.permissions), ADMIN)
    ELSE RUserRole_is_admin(c.role)

\* Claims::is_admin: the inherent method of RUserRole
Claims_is_admin(c) == RUserRole_is_admin(c.role)

\* Claims::is_premium: the inherent method of RUserRole
Claims_is_premium(c) == RUserRole_is_premium(c.role)

\* variant: the override is merged with the role's permissions
effective_permissions_merged(c) ==
    IF is_some(c.permissions)
    THEN unwrap(c.permissions) \cup RUserRole_permissions(c.role)
    ELSE RUserRole_permissions(c.role)

\* variant: an expired value has no permissions
effective_permissions_unless_expired(c) ==
    IF is_expired(c, clock) THEN empty
    ELSE IF is_some(c.permissions) THEN unwrap(c.permissions)
    ELSE RUserRole_permissions(c.role)

\* Claims::effective_permissions
effective_permissions(c) ==
    IF is_some(c.permissions) THEN unwrap(c.permissions)
    ELSE RUserRole_permissions(c.role)

\* variant: the role is asked directly, the override is ignored
Claims_can_by_role(c, p) == contains(RUserRole_permissions(c.role), p)

\* Claims::can
Claims_can(c, p) == contains(effective_permissions(c), p)

\* Claims::can_all
Claims_can_all(c, p) == contains(effective_permissions(c), p)

\* variant: an empty requirement is met by every value
Claims_can_any_vacuous(c, p) ==
    p = empty \/ intersects(effective_permissions(c), p)

\* Claims::can_any
Claims_can_any(c, p) == intersects(effective_permissions(c), p)

----------------------------------------------------------------------------
(* Inputs                                                                  *)

\* the subsets of S with at most k elements
RECURSIVE Pick(_, _)
Pick(S, k) ==
    IF k = 0 THEN {{}}
    ELSE LET P == Pick(S, k - 1) IN P \cup {s \cup {i} : s \in P, i \in S}

\* valid permission sets used as overrides and as requirements
PermInputs ==
    Pick(bits(all), MaxPick)
        \cup {empty, all, VIEWER, EDITOR, MANAGER, Permissions_default}
        \cup {RUserRole_permissions(r) : r \in RUserRole}

\* raw u32 values: every valid value, values with a few arbitrary bits,
\* valid values with unknown bits added, and the sentinels of the tests
RawInputs ==
    (SUBSET bits(all))
        \cup Pick(U32Bits, MaxPick)
        \cup {p \cup u : p \in PermInputs, u \in Pick(U32Bits \ bits(all), MaxPick)}
        \cup {U32_MAX, U32Bits \ (0..15)}

Subs == {"nil", "u1"}

Times == 0..MaxTime

\* the system clock: from one second before the epoch to after every expiry
Clocks == (-1)..(MaxTime + 1)

----------------------------------------------------------------------------
(* Specification Spec: the lifetime of one Claims value.  claims is the    *)
(* value under observation (None before it is issued and after it is       *)
(* discarded), clock is the system clock, and ret is the call in progress: *)
(* the method called on the value at the current clock and its result,     *)
(* until the caller takes it (Return).                                     *)

NoCall == [op |-> "none"]

\* the Claims value held
cur == unwrap(claims)

Init ==
    /\ claims = None
    /\ clock = 0
    /\ ret = NoCall
    /\ user = None

New ==
    /\ claims = None
    /\ \E s \in Subs, r \in RUserRole, e \in Times :
           claims' = Some(Claims_new(s, r, e))
    /\ UNCHANGED <<clock, ret, user>>

WithIat ==
    /\ claims = None
    /\ \E s \in Subs, r \in RUserRole, e \in Times, i \in Times :
           claims' = Some(Claims_with_iat(s, r, e, i))
    /\ UNCHANGED <<clock, ret, user>>

WithPermissions ==
    /\ claims = None
    /\ \E s \in Subs, r \in RUserRole, e \in Times, p \in PermInputs :
           claims' = Some(Claims_with_permissions(s, r, e, p))
    /\ UNCHANGED <<clock, ret, user>>

\* the value goes out of scope at the end of the request
Drop ==
    /\ is_some(claims)
    /\ ret = NoCall
    /\ claims' = None
    /\ UNCHANGED <<clock, ret, user>>

\* the environment: the system clock is set to another reading
ClockChange ==
    /\ ret = NoCall
    /\ \E t \in Clocks \ {clock} : clock' = t
    /\ UNCHANGED <<claims, ret, user>>

IsExpired ==
    /\ is_some(claims)
    /\ ret = NoCall
    /\ ret' = [op |-> "is_expired", arg |-> empty,
               val |-> is_expired(cur, clock)]
    /\ UNCHANGED <<claims, clock, user>>

IsAdmin ==
    /\ is_some(claims)
    /\ ret = NoCall
    /\ ret' = [op |-> "is_admin", arg |-> empty,
               val |-> Claims_is_admin(cur)]
    /\ UNCHANGED <<claims, clock, user>>

IsPremium ==
    /\ is_some(claims)
    /\ ret = NoCall
    /\ ret' = [op |-> "is_premium", arg |-> empty,
               val |-> Claims_is_premium(cur)]
    /\ UNCHANGED <<claims, clock, user>>

EffectivePermissions ==
    /\ is_some(claims)
    /\ ret = NoCall
    /\ ret' = [op |-> "effective_permissions", arg |-> empty,
               val |-> effective_permissions(cur)]
    /\ UNCHANGED <<claims, clock, user>>

Can ==
    /\ is_some(claims)
    /\ ret = NoCall
    /\ \E p \in PermInputs :
           ret' = [op |-> "can", arg |-> p, val |-> Claims_can(cur, p)]
    /\ UNCHANGED <<claims, clock, user>>

CanAll ==
    /\ is_some(claims)
    /\ ret = NoCall
    /\ \E p \in PermInputs :
           ret' = [op |-> "can_all", arg |-> p, val |-> Claims_can_all(cur, p)]
    /\ UNCHANGED <<claims, clock, user>>

CanAny ==
    /\ is_some(claims)
    /\ ret = NoCall
    /\ \E p \in PermInputs :
           ret' = [op |-> "can_any", arg |-> p, val |-> Claims_can_any(cur, p)]
    /\ UNCHANGED <<claims, clock, user>>

\* the caller takes the result
Return ==
    /\ ret # NoCall
    /\ ret' = NoCall
    /\ UNCHANGED <<claims, clock, user>>

Next ==
    \/ New
    \/ WithIat
    \/ WithPermissions
    \/ Drop
    \/ ClockChange
    \/ IsExpired
    \/ IsAdmin
    \/ IsPremium
    \/ EffectivePermissions
    \/ Can
    \/ CanAll
    \/ CanAny
    \/ Return

Spec == Init /\ [][Next]_vars

----------------------------------------------------------------------------
(* Specification PermSpec: calls of the pure functions of Permissions and  *)
(* of the trait Role on inputs drawn from the input sets; ret records the  *)
(* call (receiver, argument) and its result until the caller takes it      *)

\* the built-in roles, and implementors returning any input set or the
\* READ | WRITE | PREMIUM of the tests' TestRole::Member
RoleInputs ==
    {StdRole(r) : r \in RUserRole}
        \cup {OtherRole(p) : p \in PermInputs \cup {READ \cup WRITE \cup PREMIUM}}

FromBitsChecked ==
    /\ ret = NoCall
    /\ \E x \in RawInputs :
           ret' = [op |-> "from_bits_checked", arg |-> x,
                   val |-> from_bits_checked(x)]
    /\ UNCHANGED <<claims, clock, user>>

FromBitsTruncating ==
    /\ ret = NoCall
    /\ \E x \in RawInputs :
           ret' = [op |-> "from_bits_truncating", arg |-> x,
                   val |-> from_bits_truncating(x)]
    /\ UNCHANGED <<claims, clock, user>>

RolePermissions ==
    /\ ret = NoCall
    /\ \E x \in RoleInputs :
           ret' = [op |-> "Role::permissions", self |-> x, arg |-> empty,
                   val |-> Role_permissions(x)]
    /\ UNCHANGED <<claims, clock, user>>

RoleCan ==
    /\ ret = NoCall
    /\ \E x \in RoleInputs, p \in PermInputs :
           ret' = [op |-> "Role::can", self |-> x, arg |-> p,
                   val |-> Role_can(x, p)]
    /\ UNCHANGED <<claims, clock, user>>

RoleCanAll ==
    /\ ret = NoCall
    /\ \E x \in RoleInputs, p \in PermInputs :
           ret' = [op |-> "Role::can_all", self |-> x, arg |-> p,
                   val |-> Role_can_all(x, p)]
    /\ UNCHANGED <<claims, clock, user>>

RoleCanAny ==
    /\ ret = NoCall
    /\ \E x \in RoleInputs, p \in PermInputs :
           ret' = [op |-> "Role::can_any", self |-> x, arg |-> p,
                   val |-> Role_can_any(x, p)]
    /\ UNCHANGED <<claims, clock, user>>

RoleIsAdmin ==
    /\ ret = NoCall
    /\ \E x \in RoleInputs :
           ret' = [op |-> "Role::is_admin", self |-> x, arg |-> empty,
                   val |-> Role_is_admin(x)]
    /\ UNCHANGED <<claims, clock, user>>

RoleIsPremium ==
    /\ ret = NoCall
    /\ \E x \in RoleInputs :
           ret' = [op |-> "Role::is_premium", self |-> x, arg |-> empty,
                   val |-> Role_is_premium(x)]
    /\ UNCHANGED <<claims, clock, user>>

\* the inherent methods of the enum, which shadow the trait's on RUserRole
InherentIsAdmin ==
    /\ ret = NoCall
    /\ \E r \in RUserRole :
           ret' = [op |-> "RUserRole::is_admin", self |-> StdRole(r),
                   arg |-> empty, val |-> RUserRole_is_admin(r)]
    /\ UNCHANGED <<claims, clock, user>>

InherentIsPremium ==
    /\ ret = NoCall
    /\ \E r \in RUserRole :
           ret' = [op |-> "RUserRole::is_premium", self |-> StdRole(r),
                   arg |-> empty, val |-> RUserRole_is_premium(r)]
    /\ UNCHANGED <<claims, clock, user>>

PermNext ==
    \/ FromBitsChecked
    \/ FromBitsTruncating
    \/ RolePermissions
    \/ RoleCan
    \/ RoleCanAll
    \/ RoleCanAny
    \/ RoleIsAdmin
    \/ RoleIsPremium
    \/ InherentIsAdmin
    \/ InherentIsPremium
    \/ Return

PermSpec == Init /\ [][PermNext]_vars

----------------------------------------------------------------------------
(* Properties of Claims (checked under Spec)                               *)

\* the operations that answer an authorization query
AuthOps == {"effective_permissions", "can", "can_all", "can_any"}

\* the answer of an authorization query op with argument p on the value c
Answer(op, c, p) ==
    CASE op = "effective_permissions" -> effective_permissions(c)
      [] op = "can"     -> Claims_can(c, p)
      [] op = "can_all" -> Claims_can_all(c, p)
      [] op = "can_any" -> Claims_can_any(c, p)

\* C1: effective_permissions() returns exactly the override O when one is
\* present (not O | R.permissions() and not R.permissions() where these
\* differ from O), and exactly R.permissions() when none is present.
C1_OverrideReplaces ==
    ret.op = "effective_permissions" =>
        LET R == RUserRole_permissions(cur.role) IN
        IF is_some(cur.permissions)
        THEN LET O == unwrap(cur.permissions) IN
             /\ ret.val = O
             /\ (O \cup R) # O => ret.val # (O \cup R)
             /\ R # O => ret.val # R
        ELSE ret.val = R

\* C1 witness: an Admin value narrowed to READ answered READ alone
C1_Witness ==
    /\ ret.op = "effective_permissions"
    /\ cur.role = "Admin"
    /\ cur.permissions = Some(READ)
    /\ ret.val = READ

\* C2: can(p) and can_all(p) answer effective_permissions().contains(p) and
\* can_any(p) answers effective_permissions().intersects(p): every bit of p
\* (some bit of p) is granted by the override when there is one and by the
\* role otherwise.  A User value is denied ADMIN without override and is
\* granted it with override ADMIN; an Admin value with a narrower override
\* is denied everything outside the override.
C2_ChecksUseEffective ==
    ret.op \in {"can", "can_all", "can_any"} =>
        LET E == IF is_some(cur.permissions) THEN unwrap(cur.permissions)
                 ELSE RUserRole_permissions(cur.role)
        IN
        /\ ret.op \in {"can", "can_all"} => ret.val = (\A b \in ret.arg : b \in E)
        /\ ret.op = "can_any" => ret.val = (\E b \in ret.arg : b \in E)
        /\ ret.op = "can" => ret.val = contains(effective_permissions(cur), ret.arg)
        /\ ret.op = "can_all" => ret.val = contains(effective_permissions(cur), ret.arg)
        /\ ret.op = "can_any" => ret.val = intersects(effective_permissions(cur), ret.arg)
        /\ (ret.op = "can" /\ ret.arg = ADMIN /\ cur.role = "User"
                /\ cur.permissions = None) => ret.val = FALSE
        /\ (ret.op = "can" /\ ret.arg = ADMIN /\ cur.permissions = Some(ADMIN))
                => ret.val = TRUE
        /\ (ret.op \in {"can", "can_all"} /\ cur.role = "Admin"
                /\ is_some(cur.permissions)
                /\ ret.arg \ unwrap(cur.permissions) # {}) => ret.val = FALSE

\* C2 witness: a User value with override ADMIN was granted ADMIN
C2_Witness ==
    /\ ret.op = "can"
    /\ ret.arg = ADMIN
    /\ cur.role = "User"
    /\ cur.permissions = Some(ADMIN)
    /\ ret.val = TRUE

\* C3: a Claims value never enforces expiry itself: at every clock reading,
\* the answer of effective_permissions, can, can_all and can_any is the
\* answer the same value would give with any other expiry, so an expired
\* value still answers positively.
C3_ExpiryNotEnforced ==
    ret.op \in AuthOps =>
        /\ \A e \in Times :
               Answer(ret.op, [cur EXCEPT !.exp = e], ret.arg) = ret.val
        /\ (ret.op = "can" /\ is_expired(cur, clock) /\ cur.role = "Admin"
                /\ cur.permissions = None) => ret.val = TRUE

\* C3 witness: an expired value granted a non-empty requirement
C3_Witness ==
    /\ ret.op = "can"
    /\ cur.exp < clock
    /\ ret.arg # empty
    /\ ret.val = TRUE

\* C4: is_expired() is true exactly when expiry < now, with no leeway:
\* expiry = now - 1 gives true, an expiry at or after now gives false.
C4_ExpiredIffBeforeNow ==
    ret.op = "is_expired" =>
        /\ ret.val = (cur.exp < clock)
        /\ cur.exp = clock - 1 => ret.val = TRUE
        /\ cur.exp > clock => ret.val = FALSE

\* C4 witness: one second after the expiry the value is reported expired
C4_Witness ==
    /\ ret.op = "is_expired"
    /\ cur.exp = clock - 1
    /\ ret.val = TRUE

\* C5 as stated: the value is expired when its expiry is in the past or
\* equal to the current time, and valid when strictly in the future.
C5_ExpiredAtNow ==
    ret.op = "is_expired" =>
        /\ cur.exp <= now_secs(clock) => ret.val = TRUE
        /\ cur.exp > now_secs(clock) => ret.val = FALSE

\* C5 amended: at every check the value is in exactly one of two states,
\* expired when its expiry is strictly in the past, and valid when its
\* expiry is in the future or equal to the current time.
C5_ValidAtNow ==
    ret.op = "is_expired" =>
        /\ ret.val \in BOOLEAN
        /\ cur.exp < now_secs(clock) => ret.val = TRUE
        /\ cur.exp >= now_secs(clock) => ret.val = FALSE

\* C5 witness: checked at the very second of its expiry the value is valid
C5_Witness ==
    /\ ret.op = "is_expired"
    /\ clock >= 0
    /\ cur.exp = clock
    /\ ret.val = FALSE

----------------------------------------------------------------------------
(* Properties of Permissions and Role (checked under PermSpec)             *)

\* C6: Admin.permissions() contains Premium.permissions(), which contains
\* User.permissions(); so whatever User can do Premium can, and whatever
\* Premium can do Admin can.
C6_RoleHierarchy ==
    /\ contains(RUserRole_permissions("Admin"), RUserRole_permissions("Premium"))
    /\ contains(RUserRole_permissions("Premium"), RUserRole_permissions("User"))
    /\ (ret.op = "Role::can" /\ ret.val /\ ret.self = StdRole("User"))
           => Role_can(StdRole("Premium"), ret.arg)
    /\ (ret.op = "Role::can" /\ ret.val /\ ret.self = StdRole("Premium"))
           => Role_can(StdRole("Admin"), ret.arg)

\* C6 witness: User was granted a non-empty requirement
C6_Witness ==
    /\ ret.op = "Role::can"
    /\ ret.self = StdRole("User")
    /\ ret.arg # empty
    /\ ret.val = TRUE

\* C7: RUserRole::permissions() is the fixed table: User is 0x401,
\* Premium is 0xD03, Admin is the 12 named bits 0xFFF.
C7_PermissionTable ==
    (ret.op = "Role::permissions" /\ ret.self.impl = "RUserRole") =>
        /\ ret.self.variant = "User" =>
               ret.val = U32(1025) /\ ret.val = READ \cup API_ACCESS
        /\ ret.self.variant = "Premium" =>
               /\ ret.val = U32(3331)
               /\ ret.val = READ \cup WRITE \cup API_ACCESS \cup PREMIUM \cup EXPORT
        /\ ret.self.variant = "Admin" =>
               ret.val = U32(4095) /\ Cardinality(ret.val) = 12

\* C7 witness: the table was read for Premium
C7_Witness ==
    /\ ret.op = "Role::permissions"
    /\ ret.self = StdRole("Premium")
    /\ ret.val = U32(3331)

\* C8: for every implementor, can = can_all = permissions().contains(p),
\* can_any = permissions().intersects(p), is_admin = can(ADMIN) and
\* is_premium = can(PREMIUM); the inherent is_admin / is_premium of
\* RUserRole agree with the permission bits on all three variants.
C8_RoleChecksAgree ==
    /\ ret.op \in {"Role::can", "Role::can_all"} =>
           /\ ret.val = contains(Role_permissions(ret.self), ret.arg)
           /\ ret.val = Role_can(ret.self, ret.arg)
           /\ ret.val = Role_can_all(ret.self, ret.arg)
    /\ ret.op = "Role::can_any" =>
           ret.val = intersects(Role_permissions(ret.self), ret.arg)
    /\ ret.op = "Role::is_admin" => ret.val = Role_can(ret.self, ADMIN)
    /\ ret.op = "Role::is_premium" => ret.val = Role_can(ret.self, PREMIUM)
    /\ ret.op = "RUserRole::is_admin" =>
           /\ ret.val = Role_is_admin(ret.self)
           /\ ret.val = (ADMIN \subseteq Role_permissions(ret.self))
    /\ ret.op = "RUserRole::is_premium" =>
           /\ ret.val = Role_is_premium(ret.self)
           /\ ret.val = (PREMIUM \subseteq Role_permissions(ret.self))

\* C8 witness: the inherent is_premium answered true for Admin
C8_Witness ==
    /\ ret.op = "RUserRole::is_premium"
    /\ ret.self = StdRole("Admin")
    /\ ret.val = TRUE

\* C9: from_bits_checked(x) is None exactly when x has a bit outside 0xFFF,
\* and otherwise Some(p) with p.as_u32() = x; so every valid p round-trips
\* and 0xFFFF_FFFF is rejected.
C9_FromBitsChecked ==
    ret.op = "from_bits_checked" =>
        /\ ret.val = None <=> (ret.arg \ U32(4095)) # {}
        /\ is_some(ret.val) => as_u32(unwrap(ret.val)) = ret.arg
        /\ ret.arg \subseteq bits(all) => ret.val = Some(ret.arg)
        /\ ret.arg = U32_MAX => ret.val = None

\* C9 witness: 0xFFFF_FFFF was rejected
C9_Witness ==
    /\ ret.op = "from_bits_checked"
    /\ ret.arg = U32_MAX
    /\ ret.val = None

\* C10: from_bits_truncating(x) is the set whose bits are x AND 0xFFF; it
\* is idempotent, and from_bits_truncating(0xFFFF_FFFF) = all().
C10_FromBitsTruncating ==
    ret.op = "from_bits_truncating" =>
        /\ ret.val = ret.arg \cap U32(4095)
        /\ from_bits_truncating(as_u32(ret.val)) = ret.val
        /\ ret.arg = U32_MAX => ret.val = all

\* C10 witness: 0xFFFF_FFFF was truncated to all()
C10_Witness ==
    /\ ret.op = "from_bits_truncating"
    /\ ret.arg = U32_MAX
    /\ ret.val = all

----------------------------------------------------------------------------
(* serde: impl Serialize / Deserialize for Permissions                     *)

\* a u64 is a subset of 0..63; an i64 is a sign and a magnitude
U64Bits == 0..63

I64(neg, mag) == [neg |-> neg, mag |-> mag]

\* `value as u32`: the low 32 bits
as_u32_cast(v) == v \cap U32Bits

\* `value as u64` of a non-negative i64
as_u64_cast(v) == v.mag

\* Result<Permissions, E>: Ok(p), or Err with the message's fixed text
\* (kind) and the value formatted into it (detail)
Ok(p) == [ok |-> TRUE, val |-> p, kind |-> "", detail |-> <<>>]

Err(kind, detail) == [ok |-> FALSE, val |-> empty, kind |-> kind, detail |-> detail]

\* variant: serialize_u8(self.bits() as u8), the low 8 bits
Permissions_serialize_u8(p) == bits(p) \cap (0..7)

\* serializer.serialize_u32(self.bits()): the number put on the wire
Permissions_serialize(p) == bits(p)

\* PermissionsVisitor::visit_u64
visit_u64(value) ==
    LET r == from_bits(as_u32_cast(value)) IN
    IF is_some(r) THEN Ok(unwrap(r))
    ELSE Err("invalid permission bits", <<value>>)

\* variant: the sign is dropped (value.unsigned_abs())
visit_i64_abs(value) == visit_u64(value.mag)

\* PermissionsVisitor::visit_i64
visit_i64(value) ==
    IF value.neg THEN Err("permissions cannot be negative", <<>>)
    ELSE visit_u64(as_u64_cast(value))

\* non-negative integers a deserializer hands to visit_u64: the u32 inputs
\* and inputs with bits at position 32 or above
U64Inputs ==
    RawInputs
        \cup {p \cup h : p \in PermInputs \cup {U32_MAX},
                         h \in Pick(U64Bits \ U32Bits, MaxPick)}

\* signed integers handed to visit_i64
I64Inputs ==
    {I64(FALSE, m) : m \in PermInputs \cup Pick(0..62, MaxPick)}
        \cup {I64(TRUE, m) : m \in (PermInputs \cup Pick(0..62, MaxPick)) \ {{}}}

----------------------------------------------------------------------------
(* Strings: a str is the sequence of its characters                        *)

\* char::is_whitespace, on the characters of the inputs
is_whitespace(ch) == ch \in {" ", "\t", "\n"}

\* char::to_lowercase, on the letters of the inputs
char_to_lowercase(ch) ==
    LET UpperChars == <<"A", "B", "C", "D", "E", "F", "G", "H", "I", "J", "K", "L", "M",
                        "N", "O", "P", "Q", "R", "S", "T", "U", "V", "W", "X", "Y", "Z">>
        LowerChars == <<"a", "b", "c", "d", "e", "f", "g", "h", "i", "j", "k", "l", "m",
                        "n", "o", "p", "q", "r", "s", "t", "u", "v", "w", "x", "y", "z">> IN
    IF \E i \in 1..Len(UpperChars) : UpperChars[i] = ch
    THEN LowerChars[CHOOSE i \in 1..Len(UpperChars) : UpperChars[i] = ch]
    ELSE ch

\* variant: the text is left in the case it came in
to_lowercase_keep(str) == str

\* str::to_lowercase
to_lowercase(str) == [i \in 1..Len(str) |-> char_to_lowercase(str[i])]

\* str::trim: leading and trailing whitespace removed
RECURSIVE trim_start(_)
trim_start(str) ==
    IF Len(str) > 0 /\ is_whitespace(Head(str)) THEN trim_start(Tail(str)) ELSE str

RECURSIVE trim_end(_)
trim_end(str) ==
    IF Len(str) > 0 /\ is_whitespace(str[Len(str)])
    THEN trim_end(SubSeq(str, 1, Len(str) - 1)) ELSE str

\* variant: only trailing whitespace is removed
trim_end_only(str) == trim_end(str)

trim(str) == trim_end(trim_start(str))

\* str::split([',', '|']): the parts between separators, empty parts kept
RECURSIVE split_from(_, _, _)
split_from(str, i, part) ==
    IF i > Len(str) THEN <<part>>
    ELSE IF str[i] \in {",", "|"} THEN <<part>> \o split_from(str, i + 1, <<>>)
    ELSE split_from(str, i + 1, Append(part, str[i]))

split(str) == split_from(str, 1, <<>>)

\* [&str]::join(sep)
RECURSIVE join(_, _)
join(parts, sep) ==
    IF Len(parts) = 0 THEN <<>>
    ELSE IF Len(parts) = 1 THEN parts[1]
    ELSE parts[1] \o sep \o join(Tail(parts), sep)

----------------------------------------------------------------------------
(* parse_permissions and impl Display for Permissions                      *)

\* the names of the flags, in the order of Flags
Names ==
    << <<"r", "e", "a", "d">>,
       <<"w", "r", "i", "t", "e">>,
       <<"d", "e", "l", "e", "t", "e">>,
       <<"a", "d", "m", "i", "n">>,
       <<"m", "a", "n", "a", "g", "e", "_", "u", "s", "e", "r", "s">>,
       <<"m", "a", "n", "a", "g", "e", "_", "r", "o", "l", "e", "s">>,
       <<"b", "i", "l", "l", "i", "n", "g">>,
       <<"a", "u", "d", "i", "t">>,
       <<"e", "x", "p", "o", "r", "t">>,
       <<"i", "m", "p", "o", "r", "t">>,
       <<"a", "p", "i", "_", "a", "c", "c", "e", "s", "s">>,
       <<"p", "r", "e", "m", "i", "u", "m">> >>

S_none == <<"n", "o", "n", "e">>

\* the arm of `match name.as_str()` that name takes: the index of the flag,
\* or 0 when no flag has that name
name_index(name) ==
    IF \E i \in 1..Len(Names) : Names[i] = name
    THEN CHOOSE i \in 1..Len(Names) : Names[i] = name
    ELSE 0

\* the loop of parse_permissions from part i on, result being the set so far
RECURSIVE parse_parts(_, _, _)
parse_parts(parts, i, result) ==
    IF i > Len(parts) THEN Ok(result)
    ELSE LET name == to_lowercase(trim(parts[i])) IN
         IF name_index(name) # 0
         THEN parse_parts(parts, i + 1, result \cup Flags[name_index(name)])
         ELSE IF name = <<>> THEN parse_parts(parts, i + 1, result)
         ELSE Err("unknown permission", name)

\* variant: an unknown name is skipped like an empty one
RECURSIVE parse_parts_skip(_, _, _)
parse_parts_skip(parts, i, result) ==
    IF i > Len(parts) THEN Ok(result)
    ELSE LET name == to_lowercase(trim(parts[i])) IN
         IF name_index(name) # 0
         THEN parse_parts_skip(parts, i + 1, result \cup Flags[name_index(name)])
         ELSE parse_parts_skip(parts, i + 1, result)

parse_permissions_skip(str) == parse_parts_skip(split(str), 1, empty)

\* parse_permissions
parse_permissions(str) == parse_parts(split(str), 1, empty)

\* PermissionsVisitor::visit_str
visit_str(value) == parse_permissions(value)

\* the Vec `parts` of Display::fmt after the ifs from flag i on
RECURSIVE fmt_parts(_, _)
fmt_parts(p, i) ==
    IF i > Len(Flags) THEN <<>>
    ELSE (IF contains(p, Flags[i]) THEN <<Names[i]>> ELSE <<>>) \o fmt_parts(p, i + 1)

\* variant: the names are pushed from the highest flag down
RECURSIVE fmt_parts_rev(_, _)
fmt_parts_rev(p, i) ==
    IF i > Len(Flags) THEN <<>>
    ELSE fmt_parts_rev(p, i + 1) \o (IF contains(p, Flags[i]) THEN <<Names[i]>> ELSE <<>>)

Permissions_fmt_rev(p) ==
    IF p = empty THEN S_none ELSE join(fmt_parts_rev(p, 1), <<",", " ">>)

\* impl Display for Permissions: fmt
Permissions_fmt(p) ==
    IF p = empty THEN S_none ELSE join(fmt_parts(p, 1), <<",", " ">>)

----------------------------------------------------------------------------
(* Specification SerdeSpec: values of Permissions are serialized, and the  *)
(* visitor of Deserialize is entered with what a deserializer found        *)

VisitU64 ==
    /\ ret = NoCall
    /\ \E v \in U64Inputs :
           ret' = [op |-> "visit_u64", arg |-> v, val |-> visit_u64(v)]
    /\ UNCHANGED <<claims, clock, user>>

VisitI64 ==
    /\ ret = NoCall
    /\ \E v \in I64Inputs :
           ret' = [op |-> "visit_i64", arg |-> v, val |-> visit_i64(v)]
    /\ UNCHANGED <<claims, clock, user>>

Serialize ==
    /\ ret = NoCall
    /\ \E p \in SUBSET bits(all) :
           ret' = [op |-> "serialize", arg |-> p, val |-> Permissions_serialize(p)]
    /\ UNCHANGED <<claims, clock, user>>

\* the number written by Serialize is read back: a JSON parser hands a
\* non-negative integer to visit_u64
ReadBack ==
    /\ ret.op = "serialize"
    /\ ret' = [op |-> "read_back", arg |-> ret.arg, wire |-> ret.val,
               val |-> visit_u64(ret.val)]
    /\ UNCHANGED <<claims, clock, user>>

\* the token that is the name of flag i as declared
NameToken(i) == [text |-> Names[i], idx |-> i, canon |-> Names[i]]

\* the tokens input strings are made of: the text, the flag it names (idx, 0
\* for an empty token, -1 for a name no flag has) and the name it is matched as
Tokens ==
    {NameToken(i) : i \in 1..Len(Names)}
    \cup
    { [text |-> <<"R", "E", "A", "D", " ">>, idx |-> 1,
       canon |-> <<"r", "e", "a", "d">>],
      [text |-> <<" ", "w", "r", "i", "t", "e">>, idx |-> 2,
       canon |-> <<"w", "r", "i", "t", "e">>],
      [text |-> <<" ", "W", "R", "I", "T", "E">>, idx |-> 2,
       canon |-> <<"w", "r", "i", "t", "e">>],
      [text |-> <<" ", "M", "a", "n", "a", "g", "e", "_", "U", "s", "e", "r", "s", " ">>, idx |-> 5,
       canon |-> <<"m", "a", "n", "a", "g", "e", "_", "u", "s", "e", "r", "s">>],
      [text |-> <<"\t", "P", "r", "e", "m", "i", "u", "m">>, idx |-> 12,
       canon |-> <<"p", "r", "e", "m", "i", "u", "m">>],
      [text |-> <<>>, idx |-> 0, canon |-> <<>>],
      [text |-> <<" ">>, idx |-> 0, canon |-> <<>>] }
    \cup
    { [text |-> <<"b", "o", "g", "u", "s">>, idx |-> -1,
       canon |-> <<"b", "o", "g", "u", "s">>],
      [text |-> <<"n", "o", "n", "e">>, idx |-> -1,
       canon |-> <<"n", "o", "n", "e">>],
      [text |-> <<" ", "I", "n", "v", "a", "l", "i", "d", "_", "P", "e", "r", "m", " ">>, idx |-> -1,
       canon |-> <<"i", "n", "v", "a", "l", "i", "d", "_", "p", "e", "r", "m">>],
      [text |-> <<"r", "e", " ", "a", "d">>, idx |-> -1,
       canon |-> <<"r", "e", " ", "a", "d">>],
      [text |-> <<"r", "e", "a", "d", "s">>, idx |-> -1,
       canon |-> <<"r", "e", "a", "d", "s">>] }

\* lists of 1..n tokens
RECURSIVE TokenLists(_)
TokenLists(n) ==
    IF n = 0 THEN {}
    ELSE {<<t>> : t \in Tokens}
         \cup {Append(l, t) : l \in TokenLists(n - 1), t \in Tokens}

\* lists of n separators
RECURSIVE SepLists(_)
SepLists(n) ==
    IF n = 0 THEN {<<>>}
    ELSE {Append(l, c) : l \in SepLists(n - 1), c \in {",", "|"}}

\* the string made of the tokens toks with seps[i] after token i
RECURSIVE Text(_, _)
Text(toks, seps) ==
    IF Len(toks) = 1 THEN toks[1].text
    ELSE toks[1].text \o <<seps[1]>> \o Text(Tail(toks), Tail(seps))

\* "read,,write" and the strings of the documentation comments
LongInputs ==
    { [toks |-> <<NameToken(1), [text |-> <<>>, idx |-> 0, canon |-> <<>>],
                  NameToken(2)>>,
       seps |-> <<",", ",">>],
      [toks |-> <<NameToken(1),
                  [text |-> <<" ", "w", "r", "i", "t", "e">>, idx |-> 2,
                   canon |-> <<"w", "r", "i", "t", "e">>],
                  [text |-> <<" ", "d", "e", "l", "e", "t", "e">>, idx |-> 3,
                   canon |-> <<"d", "e", "l", "e", "t", "e">>]>>,
       seps |-> <<",", ",">>],
      [toks |-> <<NameToken(4),
                  [text |-> <<" ", "B", "o", "g", "u", "s">>, idx |-> -1,
                   canon |-> <<"b", "o", "g", "u", "s">>],
                  [text |-> <<"n", "o", "p", "e", " ">>, idx |-> -1,
                   canon |-> <<"n", "o", "p", "e">>],
                  NameToken(2)>>,
       seps |-> <<"|", ",", "|">>] }

VisitStr ==
    /\ ret = NoCall
    /\ \E l \in TokenLists(MaxTokens) :
         \E q \in SepLists(Len(l) - 1) :
            ret' = [op |-> "visit_str", toks |-> l, arg |-> Text(l, q),
                    val |-> visit_str(Text(l, q))]
    /\ UNCHANGED <<claims, clock, user>>

VisitStrLong ==
    /\ ret = NoCall
    /\ \E x \in LongInputs :
         ret' = [op |-> "visit_str", toks |-> x.toks, arg |-> Text(x.toks, x.seps),
                 val |-> visit_str(Text(x.toks, x.seps))]
    /\ UNCHANGED <<claims, clock, user>>

Display ==
    /\ ret = NoCall
    /\ \E p \in SUBSET bits(all) :
         ret' = [op |-> "fmt", arg |-> p, val |-> Permissions_fmt(p)]
    /\ UNCHANGED <<claims, clock, user>>

\* the text written by Display is handed to the string deserializer
ParseBack ==
    /\ ret.op = "fmt"
    /\ ret' = [op |-> "parse_back", arg |-> ret.arg, text |-> ret.val,
               val |-> visit_str(ret.val)]
    /\ UNCHANGED <<claims, clock, user>>

SerdeNext ==
    \/ VisitU64
    \/ VisitI64
    \/ VisitStr
    \/ VisitStrLong
    \/ Serialize
    \/ ReadBack
    \/ Display
    \/ ParseBack
    \/ Return

SerdeSpec == Init /\ [][SerdeNext]_vars

----------------------------------------------------------------------------
(* Properties of the serde impls (checked under SerdeSpec)                 *)

\* C11 as stated: an integer is accepted only if its whole value is a union
\* of named bits; any bit outside the 12 named bits, also at position 32
\* or above, makes the deserialization fail.
C11_WholeValueValidated ==
    /\ ret.op = "visit_u64" => (ret.val.ok <=> ret.arg \subseteq bits(all))
    /\ (ret.op = "visit_i64" /\ ~ret.arg.neg) =>
           (ret.val.ok <=> ret.arg.mag \subseteq bits(all))

\* C13: every negative integer fails with the negative-value error, which
\* differs from the invalid-bits error of a non-negative integer with
\* unknown bits such as 4294967295; neither yields a value.
C13_NegativeDistinct ==
    /\ (ret.op = "visit_i64" /\ ret.arg.neg) =>
           /\ ~ret.val.ok
           /\ ret.val.kind = "permissions cannot be negative"
    /\ (ret.op = "visit_u64" /\ as_u32_cast(ret.arg) \ bits(all) # {}) =>
           /\ ~ret.val.ok
           /\ ret.val.kind = "invalid permission bits"
           /\ ret.val.kind # "permissions cannot be negative"
    /\ (ret.op = "visit_u64" /\ ret.arg = U32_MAX) =>
           ~ret.val.ok /\ ret.val.kind = "invalid permission bits"

\* C13 witness: -1 was rejected as negative
C13_Witness ==
    /\ ret.op = "visit_i64"
    /\ ret.arg = I64(TRUE, U32(1))
    /\ ~ret.val.ok
    /\ ret.val.kind = "permissions cannot be negative"

\* C14: serialization emits the bare integer p.as_u32(), and reading that
\* integer back returns p, for every valid p including empty() and all().
C14_WireRoundTrip ==
    /\ ret.op = "serialize" => ret.val = as_u32(ret.arg)
    /\ (ret.op = "serialize" /\ ret.arg = READ \cup WRITE) => ret.val = U32(3)
    /\ ret.op = "read_back" =>
           /\ ret.wire = as_u32(ret.arg)
           /\ ret.val.ok
           /\ ret.val.val = ret.arg

\* C14 witness: all() went over the wire as 4095 and came back
C14_Witness ==
    /\ ret.op = "read_back"
    /\ ret.arg = all
    /\ ret.wire = U32(4095)
    /\ ret.val.ok
    /\ ret.val.val = all

----------------------------------------------------------------------------
(* Properties of the text forms (checked under SerdeSpec)                  *)

S_read_write == <<"r", "e", "a", "d", ",", " ", "w", "r", "i", "t", "e">>

S_READ_WRITE == <<"R", "E", "A", "D", " ", "|", " ", "W", "R", "I", "T", "E">>

S_read__write == <<"r", "e", "a", "d", ",", ",", "w", "r", "i", "t", "e">>

S_bogus == <<"b", "o", "g", "u", "s">>

\* the flags named by the tokens of a list
NamedBits(toks) == UNION {Flags[toks[i].idx] : i \in {j \in 1..Len(toks) : toks[j].idx > 0}}

\* C15: a string whose non-empty tokens all name flags parses to the union of
\* the named flags, whatever the case, padding, separator, order or repetition
\* of the tokens; "read, write" and "READ | WRITE" give bits 3, "read,,write"
\* is accepted and the empty string gives empty()
C15_ParseUnion ==
    ret.op = "visit_str" =>
        /\ (\A i \in 1..Len(ret.toks) : ret.toks[i].idx >= 0) =>
               ret.val.ok /\ ret.val.val = NamedBits(ret.toks)
        /\ ret.arg \in {S_read_write, S_READ_WRITE, S_read__write} =>
               ret.val.ok /\ ret.val.val = U32(3)
        /\ ret.arg = <<>> => ret.val.ok /\ ret.val.val = empty

C15_Witness ==
    /\ ret.op = "visit_str"
    /\ ret.arg = S_READ_WRITE
    /\ ret.val.ok
    /\ ret.val.val = READ \cup WRITE

\* the first token of a list that names no flag (0 when there is none)
FirstUnknown(toks) ==
    IF \E i \in 1..Len(toks) : toks[i].idx < 0
    THEN CHOOSE i \in 1..Len(toks) :
            toks[i].idx < 0 /\ \A j \in 1..(i - 1) : toks[j].idx >= 0
    ELSE 0

\* C16: a string with a non-empty token that names no flag is rejected, with
\* an error that carries the first such token (trimmed and lower-cased),
\* whatever valid tokens stand before or behind it
C16_UnknownNameRejected ==
    (ret.op = "visit_str" /\ FirstUnknown(ret.toks) # 0) =>
        /\ ~ret.val.ok
        /\ ret.val.kind = "unknown permission"
        /\ ret.val.detail = ret.toks[FirstUnknown(ret.toks)].canon

C16_Witness ==
    /\ ret.op = "visit_str"
    /\ Len(ret.toks) = 4
    /\ FirstUnknown(ret.toks) = 2
    /\ ret.toks[3].idx < 0
    /\ ~ret.val.ok
    /\ ret.val.detail = S_bogus

\* the i-th name of a rendered list: the text between the separators ", "
Rendered(parts, i) == IF i = 1 THEN parts[1] ELSE Tail(parts[i])

\* C17: Display renders empty() as "none" and any other set as the names of
\* exactly its flags, each once, in declaration order, joined by ", "
C17_DisplayInOrder ==
    ret.op = "fmt" =>
        IF ret.arg = empty THEN ret.val = S_none
        ELSE LET parts == split(ret.val)
                 idx == [i \in 1..Len(parts) |-> name_index(Rendered(parts, i))] IN
             /\ \A i \in 2..Len(parts) : Head(parts[i]) = " "
             /\ \A i \in 1..Len(parts) : idx[i] # 0
             /\ \A i \in 1..(Len(parts) - 1) : idx[i] < idx[i + 1]
             /\ UNION {Flags[idx[i]] : i \in 1..Len(parts)} = ret.arg

C17_Witness ==
    /\ ret.op = "fmt"
    /\ ret.arg = WRITE \cup READ
    /\ ret.val = S_read_write

----------------------------------------------------------------------------
(* Specification AlgebraSpec: values of Permissions built by the           *)
(* constructors and combined by the operators the bitflags! block          *)
(* generates.  ret is the last call; a call that produced a value can be   *)
(* followed by an operator applied to that value.                          *)

\* variant: the bits are negated and kept as they are
complement_retain(p) == U32Bits \ bits(p)

\* !p: from_bits_truncate(!p.bits())
complement(p) == from_bits_truncate(U32Bits \ bits(p))

\* a | b
union(a, b) == bits(a) \cup bits(b)

\* a & b
intersection(a, b) == bits(a) \cap bits(b)

\* a ^ b
symmetric_difference(a, b) == (bits(a) \ bits(b)) \cup (bits(b) \ bits(a))

\* Permissions::satisfies
satisfies(a, b) == contains(a, b)

\* the Permissions the call in r handed back, if it handed one back
Produced(r) ==
    IF r.op \in {"from_bits_checked"} THEN r.val
    ELSE IF r.op \in {"visit_u64", "visit_i64", "visit_str"}
         THEN (IF r.val.ok THEN {r.val.val} ELSE {})
    ELSE IF r.op \in {"from_bits_truncating", "const", "default", "union",
                      "intersection", "symmetric_difference", "complement"}
         THEN {r.val}
    ELSE {}

\* an associated constant of the bitflags! block, empty() or all()
Named ==
    /\ ret = NoCall
    /\ \E p \in {Flags[i] : i \in 1..Len(Flags)}
                  \cup {VIEWER, EDITOR, MANAGER, empty, all} :
          ret' = [op |-> "const", val |-> p]
    /\ UNCHANGED <<claims, clock, user>>

Default ==
    /\ ret = NoCall
    /\ ret' = [op |-> "default", val |-> Permissions_default]
    /\ UNCHANGED <<claims, clock, user>>

Union ==
    /\ Produced(ret) # {}
    /\ \E q \in PermInputs :
          ret' = [op |-> "union", val |-> union(unwrap(Produced(ret)), q)]
    /\ UNCHANGED <<claims, clock, user>>

Intersection ==
    /\ Produced(ret) # {}
    /\ \E q \in PermInputs :
          ret' = [op |-> "intersection",
                  val |-> intersection(unwrap(Produced(ret)), q)]
    /\ UNCHANGED <<claims, clock, user>>

SymmetricDifference ==
    /\ Produced(ret) # {}
    /\ \E q \in PermInputs :
          ret' = [op |-> "symmetric_difference",
                  val |-> symmetric_difference(unwrap(Produced(ret)), q)]
    /\ UNCHANGED <<claims, clock, user>>

Complement ==
    /\ Produced(ret) # {}
    /\ ret' = [op |-> "complement", self |-> unwrap(Produced(ret)),
               val |-> complement(unwrap(Produced(ret)))]
    /\ UNCHANGED <<claims, clock, user>>

Contains ==
    /\ ret = NoCall
    /\ \E a \in PermInputs, b \in PermInputs :
          ret' = [op |-> "contains", self |-> a, arg |-> b, val |-> contains(a, b)]
    /\ UNCHANGED <<claims, clock, user>>

Intersects ==
    /\ ret = NoCall
    /\ \E a \in PermInputs, b \in PermInputs :
          ret' = [op |-> "intersects", self |-> a, arg |-> b,
                  val |-> intersects(a, b)]
    /\ UNCHANGED <<claims, clock, user>>

Satisfies ==
    /\ ret = NoCall
    /\ \E a \in PermInputs, b \in PermInputs :
          ret' = [op |-> "satisfies", self |-> a, arg |-> b, val |-> satisfies(a, b)]
    /\ UNCHANGED <<claims, clock, user>>

AlgebraNext ==
    \/ Named
    \/ Default
    \/ FromBitsChecked
    \/ FromBitsTruncating
    \/ VisitU64
    \/ VisitI64
    \/ VisitStr
    \/ Union
    \/ Intersection
    \/ SymmetricDifference
    \/ Complement
    \/ Contains
    \/ Intersects
    \/ Satisfies
    \/ Return

AlgebraSpec == Init /\ [][AlgebraNext]_vars

----------------------------------------------------------------------------
(* Properties of the value algebra (checked under AlgebraSpec)             *)

\* C12: every value that a constructor, a deserialization, Default or an
\* operator hands back has only named bits, and the complement of p is
\* all() without p
C12_ValueSpaceClosed ==
    /\ \A v \in Produced(ret) : v \subseteq bits(all)
    /\ ret.op = "complement" => ret.val = bits(all) \ ret.self

C12_Witness ==
    /\ ret.op = "complement"
    /\ ret.self = READ \cup WRITE
    /\ ret.val = bits(all) \ (READ \cup WRITE)

\* C18: a.contains(b) (and satisfies) holds iff every bit of b is in a, so
\* p.contains(p) always holds and empty().contains(p) only for p = empty();
\* a.intersects(b) holds iff some bit is in both
C18_ContainmentLaws ==
    /\ ret.op \in {"contains", "satisfies"} =>
          /\ ret.val = (\A i \in ret.arg : i \in ret.self)
          /\ ret.self = ret.arg => ret.val
          /\ ret.self = empty => (ret.val <=> ret.arg = empty)
    /\ ret.op = "intersects" =>
          ret.val = (\E i \in U32Bits : i \in ret.self /\ i \in ret.arg)

C18_Witness ==
    /\ ret.op = "satisfies"
    /\ ret.self = EDITOR
    /\ ret.arg = MANAGER
    /\ ret.val = FALSE
    /\ intersects(ret.self, ret.arg)

----------------------------------------------------------------------------
(* Specification WireSpec: the derived serde impls of Claims and RUserRole. *)
(* A JSON object is the function from its keys to their values.            *)

\* the identifier of a variant of RUserRole
VariantIdent(r) ==
    CASE r = "User" -> <<"U", "s", "e", "r">>
      [] r = "Premium" -> <<"P", "r", "e", "m", "i", "u", "m">>
      [] r = "Admin" -> <<"A", "d", "m", "i", "n">>

\* rename_all = "snake_case" on a variant identifier: '_' before every
\* upper-case character but the first, every character lower-cased
RECURSIVE snake_case_from(_, _)
snake_case_from(ident, i) ==
    IF i > Len(ident) THEN <<>>
    ELSE (IF i > 1 /\ char_to_lowercase(ident[i]) # ident[i] THEN <<"_">> ELSE <<>>)
         \o <<char_to_lowercase(ident[i])>> \o snake_case_from(ident, i + 1)

\* derive(Serialize) for RUserRole: the renamed variant as a string
RUserRole_serialize(r) == snake_case_from(VariantIdent(r), 1)

\* variant: the string is trimmed and lower-cased before it is matched
RUserRole_deserialize_fold(str) ==
    LET s == to_lowercase(trim(str)) IN
    IF \E r \in RUserRole : RUserRole_serialize(r) = s
    THEN Ok(CHOOSE r \in RUserRole : RUserRole_serialize(r) = s)
    ELSE Err("unknown variant", str)

\* derive(Deserialize) for RUserRole: the variant whose renamed identifier
\* is the string, or an unknown-variant error
RUserRole_deserialize(str) ==
    IF \E r \in RUserRole : RUserRole_serialize(r) = str
    THEN Ok(CHOOSE r \in RUserRole : RUserRole_serialize(r) = str)
    ELSE Err("unknown variant", str)

\* RUserRole::as_str
RUserRole_as_str(r) ==
    CASE r = "User" -> <<"u", "s", "e", "r">>
      [] r = "Premium" -> <<"p", "r", "e", "m", "i", "u", "m">>
      [] r = "Admin" -> <<"a", "d", "m", "i", "n">>

\* impl Display for RUserRole
RUserRole_fmt(r) == RUserRole_as_str(r)

\* impl Role for RUserRole: name
RUserRole_name(r) == RUserRole_as_str(r)

\* Uuid as Serialize: the hyphenated text of the id
Uuid_serialize(u) == [hyphenated |-> u]

\* variant: an absent field is written as null
Claims_serialize_dense(c) ==
    [sub |-> Uuid_serialize(c.sub), role |-> RUserRole_serialize(c.role),
     exp |-> c.exp,
     iat |-> IF is_some(c.iat) THEN unwrap(c.iat) ELSE "null",
     permissions |-> IF is_some(c.permissions)
                     THEN Permissions_serialize(unwrap(c.permissions)) ELSE "null"]

\* derive(Serialize) for Claims, with skip_serializing_if = "Option::is_none"
\* on iat and permissions
Claims_serialize(c) ==
    [sub |-> Uuid_serialize(c.sub), role |-> RUserRole_serialize(c.role),
     exp |-> c.exp]
    @@ (IF is_some(c.iat) THEN [iat |-> unwrap(c.iat)] ELSE <<>>)
    @@ (IF is_some(c.permissions)
        THEN [permissions |-> Permissions_serialize(unwrap(c.permissions))]
        ELSE <<>>)

\* Uuid as Deserialize: the id the hyphenated text stands for
Uuid_deserialize(w) == w.hyphenated

\* variant: an absent permissions key is read as the default set
Claims_deserialize_default(w) ==
    LET role == RUserRole_deserialize(w.role)
        perms == IF "permissions" \in DOMAIN w THEN visit_u64(w.permissions)
                 ELSE Ok(Permissions_default) IN
    IF ~role.ok THEN Err(role.kind, role.detail)
    ELSE IF ~perms.ok THEN Err(perms.kind, perms.detail)
    ELSE Ok([sub |-> Uuid_deserialize(w.sub), role |-> role.val, exp |-> w.exp,
             iat |-> IF "iat" \in DOMAIN w THEN Some(w.iat) ELSE None,
             permissions |-> Some(perms.val)])

\* derive(Deserialize) for Claims: sub, role and exp are required; iat and
\* permissions carry serde(default) and are None when the key is absent
Claims_deserialize(w) ==
    IF ~({"sub", "role", "exp"} \subseteq DOMAIN w) THEN Err("missing field", <<>>)
    ELSE
    LET role == RUserRole_deserialize(w.role)
        perms == IF "permissions" \in DOMAIN w THEN visit_u64(w.permissions)
                 ELSE Ok(empty) IN
    IF ~role.ok THEN Err(role.kind, role.detail)
    ELSE IF ~perms.ok THEN Err(perms.kind, perms.detail)
    ELSE Ok([sub |-> Uuid_deserialize(w.sub), role |-> role.val, exp |-> w.exp,
             iat |-> IF "iat" \in DOMAIN w THEN Some(w.iat) ELSE None,
             permissions |-> IF "permissions" \in DOMAIN w THEN Some(perms.val)
                             ELSE None])

\* strings offered to the deserializer of RUserRole
RoleStrings ==
    {RUserRole_serialize(r) : r \in RUserRole}
    \cup {VariantIdent(r) : r \in RUserRole}
    \cup {<<" ">> \o RUserRole_as_str(r) : r \in RUserRole}
    \cup {RUserRole_as_str(r) \o <<" ">> : r \in RUserRole}
    \cup {SubSeq(RUserRole_as_str(r), 1, n) : r \in RUserRole, n \in 0..4}
    \cup {RUserRole_as_str(r) \o <<"s">> : r \in RUserRole}
    \cup {<<"A", "D", "M", "I", "N">>, <<"s", "u", "p", "e", "r", "u", "s", "e", "r">>,
          <<"m", "o", "d", "e", "r", "a", "t", "o", "r">>, S_none}

ClaimsSerialize ==
    /\ is_some(claims)
    /\ ret = NoCall
    /\ ret' = [op |-> "Claims::serialize", val |-> Claims_serialize(cur)]
    /\ UNCHANGED <<claims, clock, user>>

RoleSerialize ==
    /\ ret = NoCall
    /\ \E r \in RUserRole :
          ret' = [op |-> "RUserRole::serialize", self |-> r,
                  val |-> RUserRole_serialize(r)]
    /\ UNCHANGED <<claims, clock, user>>

RoleDeserialize ==
    /\ ret = NoCall
    /\ \E s \in RoleStrings :
          ret' = [op |-> "RUserRole::deserialize", arg |-> s,
                  val |-> RUserRole_deserialize(s)]
    /\ UNCHANGED <<claims, clock, user>>

RoleReadBack ==
    /\ ret.op = "RUserRole::serialize"
    /\ ret' = [op |-> "RUserRole::read_back", self |-> ret.self, arg |-> ret.val,
               val |-> RUserRole_deserialize(ret.val)]
    /\ UNCHANGED <<claims, clock, user>>

\* the object written by ClaimsSerialize is read back
ClaimsReadBack ==
    /\ ret.op = "Claims::serialize"
    /\ ret' = [op |-> "Claims::read_back", wire |-> ret.val,
               val |-> Claims_deserialize(ret.val)]
    /\ UNCHANGED <<claims, clock, user>>

WireNext ==
    \/ New
    \/ WithIat
    \/ WithPermissions
    \/ Drop
    \/ ClaimsSerialize
    \/ ClaimsReadBack
    \/ RoleSerialize
    \/ RoleDeserialize
    \/ RoleReadBack
    \/ Return

WireSpec == Init /\ [][WireNext]_vars

----------------------------------------------------------------------------
(* Properties of the derived serde impls (checked under WireSpec)          *)

\* C19: the serialized Claims object always has the keys sub, role and exp,
\* has the key iat iff iat is Some and the key permissions iff permissions
\* is Some, and a present override is written as the integer of its bits
C19_SparseWireForm ==
    ret.op = "Claims::serialize" =>
        /\ {"sub", "role", "exp"} \subseteq DOMAIN ret.val
        /\ DOMAIN ret.val \subseteq {"sub", "role", "exp", "iat", "permissions"}
        /\ "iat" \in DOMAIN ret.val <=> is_some(cur.iat)
        /\ "permissions" \in DOMAIN ret.val <=> is_some(cur.permissions)
        /\ is_some(cur.iat) => ret.val.iat = unwrap(cur.iat)
        /\ is_some(cur.permissions) =>
               ret.val.permissions = bits(unwrap(cur.permissions))

C19_Witness ==
    /\ ret.op = "Claims::serialize"
    /\ is_some(cur.permissions)
    /\ DOMAIN ret.val = {"sub", "role", "exp", "permissions"}
    /\ ret.val.permissions = U32(3)

\* the lowercase name of each role
LowercaseName(r) ==
    CASE r = "User" -> <<"u", "s", "e", "r">>
      [] r = "Premium" -> <<"p", "r", "e", "m", "i", "u", "m">>
      [] r = "Admin" -> <<"a", "d", "m", "i", "n">>

\* C20: a string deserializes to a role iff it is exactly "user", "premium"
\* or "admin"; a role serializes to its lowercase name, which is also what
\* name(), as_str() and Display give; reading a serialized role back gives
\* the same role
C20_RoleStrictNames ==
    /\ ret.op = "RUserRole::deserialize" =>
          /\ ret.val.ok <=> (\E r \in RUserRole : ret.arg = LowercaseName(r))
          /\ ret.val.ok => ret.arg = LowercaseName(ret.val.val)
    /\ ret.op = "RUserRole::serialize" =>
          /\ ret.val = LowercaseName(ret.self)
          /\ ret.val = RUserRole_name(ret.self)
          /\ ret.val = RUserRole_as_str(ret.self)
          /\ ret.val = RUserRole_fmt(ret.self)
    /\ ret.op = "RUserRole::read_back" => ret.val.ok /\ ret.val.val = ret.self

C20_Witness ==
    /\ ret.op = "RUserRole::deserialize"
    /\ ret.arg = <<"A", "d", "m", "i", "n">>
    /\ ~ret.val.ok

----------------------------------------------------------------------------
(* Further properties of Claims (checked under Spec)                       *)

\* the values a permissions field can hold
Overrides == {None} \cup {Some(p) : p \in PermInputs}

\* C23: is_admin() and is_premium() depend on the role alone: whatever the
\* override, is_admin() is true iff the role is Admin and is_premium() iff
\* the role is Premium or Admin; so a User value with override ADMIN is
\* granted ADMIN yet is no admin, and an Admin value with override READ is
\* an admin yet is denied ADMIN
C23_RoleOnlyPredicates ==
    /\ ret.op = "is_admin" =>
          /\ ret.val = (cur.role = "Admin")
          /\ \A o \in Overrides :
                Claims_is_admin([cur EXCEPT !.permissions = o]) = ret.val
    /\ ret.op = "is_premium" =>
          /\ ret.val = (cur.role \in {"Premium", "Admin"})
          /\ \A o \in Overrides :
                Claims_is_premium([cur EXCEPT !.permissions = o]) = ret.val
    /\ (ret.op = "can" /\ ret.arg = ADMIN /\ cur.role = "User"
            /\ cur.permissions = Some(ADMIN)) =>
          ret.val = TRUE /\ Claims_is_admin(cur) = FALSE
    /\ (ret.op = "can" /\ ret.arg = ADMIN /\ cur.role = "Admin"
            /\ cur.permissions = Some(READ)) =>
          ret.val = FALSE /\ Claims_is_admin(cur) = TRUE

\* C23 witness: an Admin value narrowed to READ still answers is_admin()
C23_Witness ==
    /\ ret.op = "is_admin"
    /\ cur.role = "Admin"
    /\ cur.permissions = Some(READ)
    /\ ret.val = TRUE
    /\ Claims_can(cur, ADMIN) = FALSE

\* C24: the empty requirement is granted by can and can_all and refused by
\* can_any, by every role and by every Claims value, also with an empty
\* override; and a value with an empty override is refused every non-empty
\* requirement, whatever its role
C24_EmptyRequirement ==
    /\ (ret.op \in {"can", "can_all"} /\ ret.arg = empty) =>
          /\ ret.val = TRUE
          /\ Role_can(StdRole(cur.role), empty) = TRUE
          /\ Role_can_all(StdRole(cur.role), empty) = TRUE
    /\ (ret.op = "can_any" /\ ret.arg = empty) =>
          /\ ret.val = FALSE
          /\ Role_can_any(StdRole(cur.role), empty) = FALSE
    /\ (ret.op \in {"can", "can_all", "can_any"} /\ ret.arg # empty
            /\ cur.permissions = Some(empty)) => ret.val = FALSE

\* C24 witness: an Admin value without override refused can_any(empty())
C24_Witness ==
    /\ ret.op = "can_any"
    /\ ret.arg = empty
    /\ cur.role = "Admin"
    /\ cur.permissions = None
    /\ ret.val = FALSE

\* C26: while the value is kept and the clock does not go back, a value that
\* is_expired() reports expired is reported expired ever after; and no
\* check changes the value
C26_ExpiryMonotone ==
    [][/\ (is_some(claims) /\ claims' = claims /\ clock' >= clock
              /\ is_expired(cur, clock)) => is_expired(cur, clock')
       /\ (ret = NoCall /\ ret' # NoCall) =>
              /\ claims' = claims
              /\ ret'.op = "is_expired" => ret'.val = is_expired(cur, clock)]_vars

\* C26 witness: a value that was already expired a second earlier is
\* reported expired
C26_Witness ==
    /\ ret.op = "is_expired"
    /\ cur.exp + 1 < clock
    /\ ret.val = TRUE

\* C27: with the system clock before the epoch now is 0, and is_expired()
\* answers false for every value, also for exp = 0
C27_ClockFailureFailsOpen ==
    (ret.op = "is_expired" /\ clock < 0) =>
        /\ now_secs(clock) = 0
        /\ ret.val = FALSE

\* C27 witness: exp = 0 checked with the clock before the epoch
C27_Witness ==
    /\ ret.op = "is_expired"
    /\ clock < 0
    /\ cur.exp = 0
    /\ ret.val = FALSE

----------------------------------------------------------------------------
(* Display and the string form together (checked under SerdeSpec)          *)

\* C25: the text Display writes for a non-empty set parses back to that
\* set; the text "none" written for empty() is refused as an unknown name,
\* while the empty string parses to empty()
C25_DisplayParseRoundTrip ==
    /\ ret.op = "parse_back" =>
          IF ret.arg # empty
          THEN ret.val.ok /\ ret.val.val = ret.arg
          ELSE /\ ret.text = S_none
               /\ ~ret.val.ok
               /\ ret.val.kind = "unknown permission"
               /\ ret.val.detail = S_none
    /\ (ret.op = "visit_str" /\ ret.arg = <<>>) =>
          ret.val.ok /\ ret.val.val = empty

\* C25 witness: the text written for empty() was refused
C25_Witness ==
    /\ ret.op = "parse_back"
    /\ ret.arg = empty
    /\ ret.text = S_none
    /\ ~ret.val.ok

----------------------------------------------------------------------------
(* The wire round trip of Claims (checked under WireSpec)                  *)

\* C30: a Claims value built by new, with_iat or with_permissions and read
\* back from its serialized object has the same sub, role, exp, iat and
\* permissions (an absent key is read as None), so every authorization
\* query answers the same before and after
C30_ClaimsWireRoundTrip ==
    ret.op = "Claims::read_back" =>
        /\ ret.val.ok
        /\ LET c == ret.val.val IN
           /\ c.sub = cur.sub /\ c.role = cur.role /\ c.exp = cur.exp
           /\ c.iat = cur.iat /\ c.permissions = cur.permissions
           /\ "iat" \notin DOMAIN ret.wire => c.iat = None
           /\ "permissions" \notin DOMAIN ret.wire => c.permissions = None
           /\ effective_permissions(c) = effective_permissions(cur)
           /\ Claims_is_admin(c) = Claims_is_admin(cur)
           /\ Claims_is_premium(c) = Claims_is_premium(cur)
           /\ \A p \in PermInputs :
                 /\ Claims_can(c, p) = Claims_can(cur, p)
                 /\ Claims_can_all(c, p) = Claims_can_all(cur, p)
                 /\ Claims_can_any(c, p) = Claims_can_any(cur, p)

\* C30 witness: an Admin value with an empty override came back with the
\* empty override
C30_Witness ==
    /\ ret.op = "Claims::read_back"
    /\ cur.role = "Admin"
    /\ cur.permissions = Some(empty)
    /\ ret.val.ok
    /\ ret.val.val.permissions = Some(empty)
    /\ "iat" \notin DOMAIN ret.wire

----------------------------------------------------------------------------
(* Specification ProjSpec: the public projection of a user.  user is the   *)
(* RUser a handler holds (None when it holds none); converting it by value *)
(* consumes it, converting it by reference does not.                       *)

\* the values of the fields of RUser
RUsers ==
    [id : Subs,
     name : {None, Some("Test User"), Some("Ann")},
     gender : {None, Some("Male"), Some("Female")},
     birth_date : {None, Some("1990-01-15")},
     confession_id : {None, Some("u1")},
     email : {None, Some("secret@test.com")},
     phone : {None, Some("+14155551234")},
     telegram_id : {None, Some(123456789)},
     created_at : {0, 1},
     updated_at : {0, 1}]

\* derive(Serialize) for Gender, rename_all = "snake_case"
Gender_serialize(g) ==
    snake_case_from(IF g = "Male" THEN <<"M", "a", "l", "e">>
                    ELSE <<"F", "e", "m", "a", "l", "e">>, 1)

\* impl From<RUser> for RUserPublic
RUserPublic_from(u) == [id |-> u.id, name |-> u.name, gender |-> u.gender]

\* variant: a user without a name is shown by the e-mail address
RUserPublic_from_ref_or_email(u) ==
    [id |-> u.id, name |-> IF is_some(u.name) THEN u.name ELSE u.email,
     gender |-> u.gender]

\* impl From<&RUser> for RUserPublic
RUserPublic_from_ref(u) == [id |-> u.id, name |-> u.name, gender |-> u.gender]

\* derive(Serialize) for RUserPublic: every field is written, None as null
\* (the empty sequence here, a present value as the sequence of that value)
RUserPublic_serialize(p) ==
    [id |-> Uuid_serialize(p.id),
     name |-> IF is_some(p.name) THEN <<unwrap(p.name)>> ELSE <<>>,
     gender |-> IF is_some(p.gender) THEN <<Gender_serialize(unwrap(p.gender))>>
                ELSE <<>>]

UserNew ==
    /\ user = None
    /\ ret = NoCall
    /\ \E u \in RUsers : user' = Some(u)
    /\ UNCHANGED <<claims, clock, ret>>

PublicFrom ==
    /\ is_some(user)
    /\ ret = NoCall
    /\ ret' = [op |-> "RUserPublic::from", self |-> unwrap(user),
               val |-> RUserPublic_from(unwrap(user))]
    /\ user' = None
    /\ UNCHANGED <<claims, clock>>

PublicFromRef ==
    /\ is_some(user)
    /\ ret = NoCall
    /\ ret' = [op |-> "RUserPublic::from_ref", self |-> unwrap(user),
               val |-> RUserPublic_from_ref(unwrap(user))]
    /\ UNCHANGED <<claims, clock, user>>

PublicSerialize ==
    /\ ret.op \in {"RUserPublic::from", "RUserPublic::from_ref"}
    /\ ret' = [op |-> "RUserPublic::serialize", self |-> ret.self,
               val |-> RUserPublic_serialize(ret.val)]
    /\ UNCHANGED <<claims, clock, user>>

ProjNext ==
    \/ UserNew
    \/ PublicFrom
    \/ PublicFromRef
    \/ PublicSerialize
    \/ Return

ProjSpec == Init /\ [][ProjNext]_vars

----------------------------------------------------------------------------
(* Properties of the public projection (checked under ProjSpec)            *)

\* the fields RUserPublic excludes, with every combination of their values
Sensitive ==
    [birth_date : {None, Some("1990-01-15")},
     confession_id : {None, Some("u1")},
     email : {None, Some("secret@test.com")},
     phone : {None, Some("+14155551234")},
     telegram_id : {None, Some(123456789)},
     created_at : {0, 1},
     updated_at : {0, 1}]

\* the user u with the excluded fields replaced by those of s
WithSensitive(u, s) ==
    [u EXCEPT !.birth_date = s.birth_date, !.confession_id = s.confession_id,
              !.email = s.email, !.phone = s.phone,
              !.telegram_id = s.telegram_id, !.created_at = s.created_at,
              !.updated_at = s.updated_at]

\* C21: the projection of a user, by value or by reference, and its
\* serialized form are those of every user with the same id, name and
\* gender, whatever the other fields hold; and converting by reference
\* leaves the user as it was
C21_ProjectionHidesSensitive ==
    /\ ret.op \in {"RUserPublic::from", "RUserPublic::from_ref"} =>
          /\ DOMAIN ret.val = {"id", "name", "gender"}
          /\ \A s \in Sensitive :
                /\ RUserPublic_from(WithSensitive(ret.self, s)) = ret.val
                /\ RUserPublic_from_ref(WithSensitive(ret.self, s)) = ret.val
    /\ ret.op = "RUserPublic::from_ref" => user = Some(ret.self)
    /\ ret.op = "RUserPublic::serialize" =>
          /\ DOMAIN ret.val = {"id", "name", "gender"}
          /\ \A s \in Sensitive :
                /\ RUserPublic_serialize(RUserPublic_from(WithSensitive(ret.self, s)))
                      = ret.val
                /\ RUserPublic_serialize(RUserPublic_from_ref(WithSensitive(ret.self, s)))
                      = ret.val

\* C21 witness: a user without a name and with an e-mail address was
\* converted by reference and is still held
C21_Witness ==
    /\ ret.op = "RUserPublic::from_ref"
    /\ ret.self.name = None
    /\ ret.self.email = Some("secret@test.com")
    /\ ret.val.name = None
    /\ user = Some(ret.self)

----------------------------------------------------------------------------
(* Specification ExtractSpec: the request extractors of Claims and         *)
(* OptionalClaims for axum and actix-web.  A request is its cookie jar (a  *)
(* function from cookie names to values) and its Authorization header; the *)
(* environment is what the application registered: the AuthConfig (its     *)
(* cookie name) and the JwtValidator (the tokens it accepts).  The result  *)
(* of an extraction carries, besides the value, the tokens that were       *)
(* handed to JwtValidator::decode, in order.                               *)

S_Bearer == <<"B", "e", "a", "r", "e", "r", " ">>

\* the token values of the requests
TokenValues == {<<"t", "A">>, <<"t", "B">>}

\* str::strip_prefix
strip_prefix(str, prefix) ==
    IF Len(str) >= Len(prefix) /\ SubSeq(str, 1, Len(prefix)) = prefix
    THEN Some(SubSeq(str, Len(prefix) + 1, Len(str)))
    ELSE None

\* JwtValidator::decode of the registered validator jwt: the claims of an
\* accepted token, the validator's own error otherwise
JwtValidator_decode(jwt, token) ==
    IF token \in jwt.accepts
    THEN Ok(IF token = <<"t", "A">> THEN Claims_new("nil", "User", 0)
            ELSE Claims_with_permissions("u1", "Admin", 0, READ))
    ELSE Err("invalid token", token)

\* variant: the Authorization header is read before the cookie
axum_from_request_parts_header_first(req, env) ==
    IF env.config = None
    THEN [val |-> Err("internal", <<"AuthConfig not configured">>), decoded |-> <<>>]
    ELSE IF env.jwt = None
    THEN [val |-> Err("internal", <<"JwtValidator not configured">>), decoded |-> <<>>]
    ELSE
    LET cookie_name == unwrap(env.config)
        bearer == IF is_some(req.authorization)
                  THEN strip_prefix(unwrap(req.authorization), S_Bearer) ELSE None
        token == IF is_some(bearer) THEN bearer
                 ELSE IF cookie_name \in DOMAIN req.cookies
                 THEN Some(req.cookies[cookie_name]) ELSE None IN
    IF token = None
    THEN [val |-> Err("unauthorized", <<"Authentication required">>), decoded |-> <<>>]
    ELSE [val |-> JwtValidator_decode(unwrap(env.jwt), unwrap(token)),
          decoded |-> <<unwrap(token)>>]

\* impl FromRequestParts for Claims (axum): from_request_parts
axum_from_request_parts(req, env) ==
    IF env.config = None
    THEN [val |-> Err("internal", <<"AuthConfig not configured">>), decoded |-> <<>>]
    ELSE IF env.jwt = None
    THEN [val |-> Err("internal", <<"JwtValidator not configured">>), decoded |-> <<>>]
    ELSE
    LET cookie_name == unwrap(env.config)
        jwt_opt == IF cookie_name \in DOMAIN req.cookies
                   THEN Some(req.cookies[cookie_name]) ELSE None
        token == IF is_some(jwt_opt) THEN jwt_opt
                 ELSE IF is_some(req.authorization)
                 THEN strip_prefix(unwrap(req.authorization), S_Bearer)
                 ELSE None IN
    IF token = None
    THEN [val |-> Err("unauthorized", <<"Authentication required">>), decoded |-> <<>>]
    ELSE [val |-> JwtValidator_decode(unwrap(env.jwt), unwrap(token)),
          decoded |-> <<unwrap(token)>>]

\* variant: a cookie the validator rejects is followed by the header
actix_from_request_retry(req, env) ==
    IF env.config = None
    THEN [val |-> Err("internal", <<"AuthConfig not configured">>), decoded |-> <<>>]
    ELSE IF env.jwt = None
    THEN [val |-> Err("internal", <<"JwtValidator not configured">>), decoded |-> <<>>]
    ELSE
    LET cookie_name == unwrap(env.config)
        bearer == IF is_some(req.authorization)
                  THEN strip_prefix(unwrap(req.authorization), S_Bearer) ELSE None IN
    IF cookie_name \in DOMAIN req.cookies
    THEN LET first == JwtValidator_decode(unwrap(env.jwt), req.cookies[cookie_name]) IN
         IF first.ok \/ bearer = None
         THEN [val |-> first, decoded |-> <<req.cookies[cookie_name]>>]
         ELSE [val |-> JwtValidator_decode(unwrap(env.jwt), unwrap(bearer)),
               decoded |-> <<req.cookies[cookie_name], unwrap(bearer)>>]
    ELSE IF bearer = None
    THEN [val |-> Err("unauthorized", <<"Authentication required">>), decoded |-> <<>>]
    ELSE [val |-> JwtValidator_decode(unwrap(env.jwt), unwrap(bearer)),
          decoded |-> <<unwrap(bearer)>>]

\* impl FromRequest for Claims (actix-web): from_request
actix_from_request(req, env) ==
    IF env.config = None
    THEN [val |-> Err("internal", <<"AuthConfig not configured">>), decoded |-> <<>>]
    ELSE IF env.jwt = None
    THEN [val |-> Err("internal", <<"JwtValidator not configured">>), decoded |-> <<>>]
    ELSE
    LET cookie_name == unwrap(env.config) IN
    IF cookie_name \in DOMAIN req.cookies
    THEN [val |-> JwtValidator_decode(unwrap(env.jwt), req.cookies[cookie_name]),
          decoded |-> <<req.cookies[cookie_name]>>]
    ELSE IF is_some(req.authorization)
            /\ is_some(strip_prefix(unwrap(req.authorization), S_Bearer))
    THEN LET t == unwrap(strip_prefix(unwrap(req.authorization), S_Bearer)) IN
         [val |-> JwtValidator_decode(unwrap(env.jwt), t), decoded |-> <<t>>]
    ELSE [val |-> Err("unauthorized", <<"Authentication required">>), decoded |-> <<>>]

\* variant: an internal error of the Claims extractor is passed on
axum_optional_from_request_parts_strict(req, env) ==
    LET r == axum_from_request_parts(req, env) IN
    IF r.val.ok THEN [val |-> Ok(Some(r.val.val)), decoded |-> r.decoded]
    ELSE IF r.val.kind = "internal" THEN r
    ELSE [val |-> Ok(None), decoded |-> r.decoded]

\* impl FromRequestParts for OptionalClaims (axum): from_request_parts
axum_optional_from_request_parts(req, env) ==
    LET r == axum_from_request_parts(req, env) IN
    IF r.val.ok THEN [val |-> Ok(Some(r.val.val)), decoded |-> r.decoded]
    ELSE [val |-> Ok(None), decoded |-> r.decoded]

\* impl FromRequest for OptionalClaims (actix-web): from_request
actix_optional_from_request(req, env) ==
    LET r == actix_from_request(req, env) IN
    IF r.val.ok THEN [val |-> Ok(Some(r.val.val)), decoded |-> r.decoded]
    ELSE [val |-> Ok(None), decoded |-> r.decoded]

\* OptionalClaims::is_authenticated
OptionalClaims_is_authenticated(o) == is_some(o)

\* requests: a cookie jar in which each of the two cookie names is absent or
\* has a value, and no Authorization header, a Bearer header, a header of
\* another scheme or a header without scheme
Requests ==
    [cookies : UNION {[names -> TokenValues] : names \in SUBSET {"auth", "session"}},
     authorization : {None}
        \cup {Some(S_Bearer \o t) : t \in TokenValues}
        \cup {Some(<<"B", "a", "s", "i", "c", " ">> \o t) : t \in TokenValues}
        \cup {Some(t) : t \in TokenValues}]

\* what the application registered: no AuthConfig or one with a cookie
\* name, no JwtValidator or one that accepts some of the tokens
Envs ==
    [config : {None, Some("auth"), Some("session")},
     jwt : {None} \cup {Some([accepts |-> a]) : a \in SUBSET TokenValues}]

AxumClaims ==
    /\ ret = NoCall
    /\ \E req \in Requests, env \in Envs :
          ret' = [op |-> "Claims", on |-> "axum", req |-> req, env |-> env,
                  out |-> axum_from_request_parts(req, env)]
    /\ UNCHANGED <<claims, clock, user>>

ActixClaims ==
    /\ ret = NoCall
    /\ \E req \in Requests, env \in Envs :
          ret' = [op |-> "Claims", on |-> "actix", req |-> req, env |-> env,
                  out |-> actix_from_request(req, env)]
    /\ UNCHANGED <<claims, clock, user>>

AxumOptionalClaims ==
    /\ ret = NoCall
    /\ \E req \in Requests, env \in Envs :
          ret' = [op |-> "OptionalClaims", on |-> "axum", req |-> req, env |-> env,
                  out |-> axum_optional_from_request_parts(req, env)]
    /\ UNCHANGED <<claims, clock, user>>

ActixOptionalClaims ==
    /\ ret = NoCall
    /\ \E req \in Requests, env \in Envs :
          ret' = [op |-> "OptionalClaims", on |-> "actix", req |-> req, env |-> env,
                  out |-> actix_optional_from_request(req, env)]
    /\ UNCHANGED <<claims, clock, user>>

ExtractNext ==
    \/ AxumClaims
    \/ ActixClaims
    \/ AxumOptionalClaims
    \/ ActixOptionalClaims
    \/ Return

ExtractSpec == Init /\ [][ExtractNext]_vars

----------------------------------------------------------------------------
(* Properties of the extractors (checked under ExtractSpec)                *)

\* the application registered both the AuthConfig and the JwtValidator
Configured(env) == is_some(env.config) /\ is_some(env.jwt)

\* the request carries the cookie the AuthConfig names
HasCookie(req, env) == unwrap(env.config) \in DOMAIN req.cookies

\* C22: with AuthConfig and JwtValidator registered, decode is handed the
\* value of the cookie named by cookie_name() when the request has that
\* cookie, and the token of the Bearer header only when it has not; with
\* neither the request is refused as unauthorized and decode is not called;
\* without AuthConfig or JwtValidator the result is an internal error
\* whatever the request carries
C22_TokenResolutionOrder ==
    ret.op = "Claims" =>
        /\ ~Configured(ret.env) =>
              /\ ~ret.out.val.ok
              /\ ret.out.val.kind = "internal"
              /\ ret.out.decoded = <<>>
        /\ Configured(ret.env) =>
              /\ HasCookie(ret.req, ret.env) =>
                    ret.out.decoded = <<ret.req.cookies[unwrap(ret.env.config)]>>
              /\ ~HasCookie(ret.req, ret.env) =>
                    /\ \A t \in TokenValues :
                          ret.req.authorization = Some(S_Bearer \o t) =>
                              ret.out.decoded = <<t>>
                    /\ (\A t \in TokenValues :
                          ret.req.authorization # Some(S_Bearer \o t)) =>
                              /\ ~ret.out.val.ok
                              /\ ret.out.val.kind = "unauthorized"
                              /\ ret.out.decoded = <<>>

\* C22 witness: a request with the cookie and a Bearer header of another
\* token had the cookie decoded
C22_Witness ==
    /\ ret.op = "Claims"
    /\ ret.on = "axum"
    /\ Configured(ret.env)
    /\ HasCookie(ret.req, ret.env)
    /\ ret.req.authorization = Some(S_Bearer \o <<"t", "B">>)
    /\ ret.req.cookies[unwrap(ret.env.config)] = <<"t", "A">>
    /\ ret.out.decoded = <<<<"t", "A">>>>

\* C28: when the validator rejects the value of the cookie, the extractor
\* returns that error and does not turn to the Authorization header, even
\* one whose token the validator accepts; decode is called at most once
C28_NoFallbackAfterFailedDecode ==
    ret.op = "Claims" =>
        /\ Len(ret.out.decoded) <= 1
        /\ (Configured(ret.env) /\ HasCookie(ret.req, ret.env)
              /\ ret.req.cookies[unwrap(ret.env.config)]
                    \notin unwrap(ret.env.jwt).accepts) =>
              /\ ~ret.out.val.ok
              /\ ret.out.val.kind = "invalid token"
              /\ ret.out.val.detail = ret.req.cookies[unwrap(ret.env.config)]
              /\ ret.out.decoded = <<ret.req.cookies[unwrap(ret.env.config)]>>

\* C28 witness: the cookie was rejected although the header carried a token
\* the validator accepts
C28_Witness ==
    /\ ret.op = "Claims"
    /\ ret.on = "actix"
    /\ Configured(ret.env)
    /\ HasCookie(ret.req, ret.env)
    /\ ret.req.cookies[unwrap(ret.env.config)] = <<"t", "B">>
    /\ ret.req.authorization = Some(S_Bearer \o <<"t", "A">>)
    /\ unwrap(ret.env.jwt).accepts = {<<"t", "A">>}
    /\ ~ret.out.val.ok

\* the result of the Claims extractor of the same framework on the request
\* of the call in ret
InnerClaims ==
    IF ret.on = "axum" THEN axum_from_request_parts(ret.req, ret.env)
    ELSE actix_from_request(ret.req, ret.env)

\* C29: the OptionalClaims extractor never fails: it gives Some(claims)
\* exactly when the Claims extractor gives those claims and None for each
\* of its failures, the internal errors of a missing AuthConfig or
\* JwtValidator included; is_authenticated() is true iff the value is Some
C29_OptionalNeverRejects ==
    ret.op = "OptionalClaims" =>
        /\ ret.out.val.ok
        /\ InnerClaims.val.ok => ret.out.val.val = Some(InnerClaims.val.val)
        /\ ~InnerClaims.val.ok => ret.out.val.val = None
        /\ ~Configured(ret.env) => ret.out.val.val = None
        /\ OptionalClaims_is_authenticated(ret.out.val.val)
              <=> ret.out.val.val # None

\* C29 witness: without AuthConfig a request with cookies and a Bearer
\* header was taken as anonymous
C29_Witness ==
    /\ ret.op = "OptionalClaims"
    /\ ret.on = "axum"
    /\ ret.env.config = None
    /\ DOMAIN ret.req.cookies = {"auth", "session"}
    /\ ret.req.authorization = Some(S_Bearer \o <<"t", "A">>)
    /\ ret.out.val.ok
    /\ ret.out.val.val = None

============================================================================
